---------------------------- MODULE Spec2Model ----------------------------
(***************************************************************************)
(* Model of the two route handlers of the VTuber dashboard batch jobs:     *)
(*   - ChannelDiscovery, GET of src/app/api/youtube/channel/route.ts       *)
(*     (src/unnamed/part_000): bound validation, the paginated search      *)
(*     loop fetchYouTubeChannels, and the two upserts;                      *)
(*   - VideoSync, GET of src/app/api/batch/route.ts.                        *)
(* The upstream API and the store are the environment: every response      *)
(* they can give is a nondeterministic choice.                             *)
(***************************************************************************)
EXTENDS Integers, Sequences, FiniteSets, TLC

(***************************************************************************)
(* Program constants (part_000 lines 18-23).                               *)
(***************************************************************************)
MAX_RESULTS == 100
CHUNK_SIZE == 50
MAX_ALLOWED_SUBSCRIBERS == 10000

(***************************************************************************)
(* Bounds of the model.                                                    *)
(***************************************************************************)
\* number of handler invocations in one behaviour
MaxRuns == 2
\* the request counters saturate here, so that an endless run is a cycle
MaxCount == 4

Min(a, b) == IF a < b THEN a ELSE b

Range(s) == {s[i] : i \in DOMAIN s}

Inc(n) == Min(n + 1, MaxCount)

\* the ids lo..hi as a list
Ids(lo, hi) == [k \in 1..(hi - lo + 1) |-> lo + k - 1]

Reverse(s) == [i \in 1..Len(s) |-> s[Len(s) + 1 - i]]

(***************************************************************************)
(* Query parameters.  A raw query value is absent (searchParams.get gives  *)
(* null) or a string, here a list of characters.                           *)
(***************************************************************************)
Absent == [present |-> FALSE, chars |-> <<>>]
Str(cs) == [present |-> TRUE, chars |-> cs]

Digits == {"0", "1", "2", "3", "4", "5", "6", "7", "8", "9"}

DigitVal(c) ==
  CASE c = "0" -> 0 [] c = "1" -> 1 [] c = "2" -> 2 [] c = "3" -> 3
    [] c = "4" -> 4 [] c = "5" -> 5 [] c = "6" -> 6 [] c = "7" -> 7
    [] c = "8" -> 8 [] c = "9" -> 9

\* String.prototype.trim: drop the leading and trailing blanks
RECURSIVE TrimLeft(_)
TrimLeft(cs) ==
  IF cs # <<>> /\ Head(cs) = " " THEN TrimLeft(Tail(cs)) ELSE cs

Trim(cs) == Reverse(TrimLeft(Reverse(TrimLeft(cs))))

\* the value of a run of decimal digits, most significant first
RECURSIVE DigitsValue(_, _)
DigitsValue(cs, acc) ==
  IF cs = <<>> THEN acc
  ELSE DigitsValue(Tail(cs), acc * 10 + DigitVal(Head(cs)))

\* the longest prefix of digits of cs
RECURSIVE DigitPrefix(_)
DigitPrefix(cs) ==
  IF cs # <<>> /\ Head(cs) \in Digits
  THEN <<Head(cs)>> \o DigitPrefix(Tail(cs))
  ELSE <<>>

NaN == [finite |-> FALSE, neg |-> FALSE, int |-> 0, frac |-> FALSE]

\* an unsigned decimal literal: digits, then optionally "." and digits.
\* int is the integer part, frac says whether a nonzero fraction follows.
UnsignedNumber(cs, neg) ==
  LET ip == DigitPrefix(cs)
      rest == SubSeq(cs, Len(ip) + 1, Len(cs))
  IN  IF rest = <<>>
      THEN IF ip = <<>> THEN NaN
           ELSE [finite |-> TRUE, neg |-> neg, int |-> DigitsValue(ip, 0),
                 frac |-> FALSE]
      ELSE IF Head(rest) # "." THEN NaN
      ELSE LET fp == Tail(rest)
           IN  IF DigitPrefix(fp) # fp \/ (ip = <<>> /\ fp = <<>>) THEN NaN
               ELSE [finite |-> TRUE, neg |-> neg, int |-> DigitsValue(ip, 0),
                     frac |-> DigitsValue(fp, 0) # 0]

\* Number(value) of JavaScript on the strings of the model: blanks are
\* trimmed, the empty string is 0, a sign may lead a decimal literal, and
\* anything else is NaN
Number(cs) ==
  LET t == Trim(cs)
  IN  IF t = <<>> THEN [finite |-> TRUE, neg |-> FALSE, int |-> 0, frac |-> FALSE]
      ELSE IF Head(t) = "-" THEN UnsignedNumber(Tail(t), TRUE)
      ELSE IF Head(t) = "+" THEN UnsignedNumber(Tail(t), FALSE)
      ELSE UnsignedNumber(t, FALSE)

\* num < 0 (minus zero is not below zero)
IsNegative(num) == num.neg /\ (num.int # 0 \/ num.frac)

\* parseBound: [ok |-> FALSE] stands for the thrown
\* Error("Invalid numeric parameter")
ParseBound_NoSignCheck(value, fallback) ==
  IF ~value.present \/ Trim(value.chars) = <<>>
  THEN [ok |-> TRUE, val |-> fallback]
  ELSE LET num == Number(value.chars)
       IN  IF ~num.finite THEN [ok |-> FALSE, val |-> 0]
           ELSE [ok |-> TRUE, val |-> num.int]

ParseBound(value, fallback) ==
  IF ~value.present \/ Trim(value.chars) = <<>>
  THEN [ok |-> TRUE, val |-> fallback]
  ELSE LET num == Number(value.chars)
       IN  IF ~num.finite \/ IsNegative(num) THEN [ok |-> FALSE, val |-> 0]
           ELSE [ok |-> TRUE, val |-> num.int]


(***************************************************************************)
(* The bounded sets the inputs are drawn from.                             *)
(***************************************************************************)
\* raw query values with what they stand for: absent, blank, a non-negative
\* integer n, an invalid value, or a fractional number (floored to n)
QueryCatalog ==
  { [raw |-> Absent, class |-> "absent", n |-> 0],
    [raw |-> Str(<<" ", " ">>), class |-> "blank", n |-> 0],
    [raw |-> Str(<<"0">>), class |-> "int", n |-> 0],
    [raw |-> Str(<<"1", "0", "0">>), class |-> "int", n |-> 100],
    [raw |-> Str(<<" ", "5", "0", "0">>), class |-> "int", n |-> 500],
    [raw |-> Str(<<"1", "0", "0", "0", "0">>), class |-> "int", n |-> 10000],
    [raw |-> Str(<<"1", "0", "0", "0", "1">>), class |-> "int", n |-> 10001],
    [raw |-> Str(<<"5", "0", "0", "0", "0">>), class |-> "int", n |-> 50000],
    [raw |-> Str(<<"-", "1">>), class |-> "invalid", n |-> 0],
    [raw |-> Str(<<"1", "2", "x">>), class |-> "invalid", n |-> 0],
    [raw |-> Str(<<"7", ".", "5">>), class |-> "fraction", n |-> 7] }

Meaning(raw) == CHOOSE e \in QueryCatalog : e.raw = raw

AllQueries ==
  {[min |-> a.raw, max |-> b.raw] : a \in QueryCatalog, b \in QueryCatalog}

\* the requests of the discovery runs: the defaults, a lower bound above
\* the upper one, and an invalid value
CoreQueries ==
  { [min |-> Absent, max |-> Absent],
    [min |-> Str(<<" ", "5", "0", "0">>), max |-> Str(<<"1", "0", "0">>)],
    [min |-> Str(<<"-", "1">>), max |-> Absent] }

\* process.env: which of the variables are set
Env(yt, url, role, anon) ==
  [YOUTUBE_API_KEY |-> yt, SUPABASE_URL |-> url,
   SUPABASE_SERVICE_ROLE_KEY |-> role, SUPABASE_ANON_KEY |-> anon]

Envs ==
  { Env(TRUE, TRUE, FALSE, TRUE), Env(FALSE, TRUE, TRUE, TRUE),
    Env(TRUE, FALSE, TRUE, TRUE), Env(TRUE, TRUE, FALSE, FALSE) }

\* getSupabaseClient() returns a client (TRUE) or null (FALSE)
getSupabaseClient(e) ==
  LET supabaseUrl == e.SUPABASE_URL
      supabaseKey == e.SUPABASE_SERVICE_ROLE_KEY \/ e.SUPABASE_ANON_KEY
  IN  supabaseUrl /\ supabaseKey

(***************************************************************************)
(* Responses of a handler: the HTTP status, the message of the body and,   *)
(* for an upstream error, the status code the message carries.             *)
(***************************************************************************)
Response(status, body, code) == [status |-> status, body |-> body, code |-> code]

NoResponse == Response(0, "", 0)

MsgInvalid == "Invalid numeric parameter"
MsgMinTooLarge == "minSubscribers must be less than or equal to 10000"
MsgMinAboveMax == "minSubscribers must be less than or equal to maxSubscribers"
MsgNoApiKey == "Server is not configured with YOUTUBE_API_KEY"
MsgNoSupabase == "Server is not configured with Supabase credentials"
MsgSearchError == "YouTube search API error"
MsgChannelsError == "YouTube channels API error"
MsgCompleted == "Batch processing completed"
MsgStoreError == "store error"

\* GET, from the parsing of the two bounds to the two configuration checks:
\* the response of a rejected request, or proceed with the effective bounds
Proceed(lo, hi) == [proceed |-> TRUE, min |-> lo, max |-> hi, response |-> NoResponse]
Reject(lo, hi, status, body) ==
  [proceed |-> FALSE, min |-> lo, max |-> hi, response |-> Response(status, body, 0)]

Validate_NoKeyCheck(q, e) ==
  LET pmin == ParseBound(q.min, 0)
      pmax == ParseBound(q.max, MAX_ALLOWED_SUBSCRIBERS)
  IN  IF ~pmin.ok \/ ~pmax.ok
      THEN Reject(IF pmin.ok THEN pmin.val ELSE 0, MAX_ALLOWED_SUBSCRIBERS, 400, MsgInvalid)
      ELSE IF pmin.val > MAX_ALLOWED_SUBSCRIBERS
      THEN Reject(pmin.val, pmax.val, 400, MsgMinTooLarge)
      ELSE LET hi == Min(pmax.val, MAX_ALLOWED_SUBSCRIBERS)
           IN  IF pmin.val > hi THEN Reject(pmin.val, hi, 400, MsgMinAboveMax)
               ELSE IF ~getSupabaseClient(e) THEN Reject(pmin.val, hi, 500, MsgNoSupabase)
               ELSE Proceed(pmin.val, hi)

Validate(q, e) ==
  LET pmin == ParseBound(q.min, 0)
      pmax == ParseBound(q.max, MAX_ALLOWED_SUBSCRIBERS)
  IN  IF ~pmin.ok \/ ~pmax.ok
      THEN Reject(IF pmin.ok THEN pmin.val ELSE 0, MAX_ALLOWED_SUBSCRIBERS, 400, MsgInvalid)
      ELSE IF pmin.val > MAX_ALLOWED_SUBSCRIBERS
      THEN Reject(pmin.val, pmax.val, 400, MsgMinTooLarge)
      ELSE LET hi == Min(pmax.val, MAX_ALLOWED_SUBSCRIBERS)
           IN  IF pmin.val > hi THEN Reject(pmin.val, hi, 400, MsgMinAboveMax)
               ELSE IF ~e.YOUTUBE_API_KEY THEN Reject(pmin.val, hi, 500, MsgNoApiKey)
               ELSE IF ~getSupabaseClient(e) THEN Reject(pmin.val, hi, 500, MsgNoSupabase)
               ELSE Proceed(pmin.val, hi)

(***************************************************************************)
(* The upstream API.  A channel id is a positive number; 0 stands for a    *)
(* search item without a channelId (or a detail item without an id).  A    *)
(* continuation token names the page it leads to; NoToken is its absence.  *)
(***************************************************************************)
NoToken == ""
Unset == "?"

Pages == {"A", "B", "D", "E"}

\* the items of the search pages: 50 ids; 60 ids, more than any page size
\* asked for; a page of items without an id and of ids of page A, some of
\* them twice; and a page without items
PageItems(p) ==
  CASE p = "A" -> Ids(1, 50)
    [] p = "B" -> Ids(51, 110)
    [] p = "D" -> <<0, 1, 1, 2, 0, 2>>
    [] p = "E" -> <<>>

\* which ids the details endpoint knows: all, none, or the odd ones
DetailModes == {"all", "none", "odd"}

Known(mode, id) ==
  CASE mode = "all" -> TRUE
    [] mode = "none" -> FALSE
    [] mode = "odd" -> id % 2 = 1

\* a statistic as the upstream sends it: absent, or a string
NoValue == [defined |-> FALSE, chars |-> <<>>]

RawCount(id) ==
  CASE id % 3 = 0 -> NoValue
    [] id % 3 = 1 -> [defined |-> TRUE, chars |-> <<"1", "2", "0">>]
    [] id % 3 = 2 -> [defined |-> TRUE, chars |-> <<"n", "/", "a">>]

\* one item of a detail response; title 0 stands for a snippet without title
DetailItem(id) ==
  [id |-> id, title |-> IF id % 5 = 0 THEN 0 ELSE 1000 + id,
   hiddenSubscriberCount |-> id % 7 = 0, subscriberCount |-> RawCount(id)]

\* the items of the detail response for the ids asked: the known ones in
\* the reverse of the order asked; the "odd" upstream also sends an item
\* without an id, an item nobody asked for, and the first item twice
DetailItems(mode, ids) ==
  LET known == SelectSeq(Reverse(ids), LAMBDA i : Known(mode, i))
      items == [k \in 1..Len(known) |-> DetailItem(known[k])]
  IN  IF mode = "odd" /\ items # <<>>
      THEN <<DetailItem(0), DetailItem(999)>> \o items \o <<items[1]>>
      ELSE items


(***************************************************************************)
(* fetchYouTubeChannels, the pure parts.                                   *)
(***************************************************************************)
\* the for-loop of lines 74-80 over the items of a page, with the ids seen
\* so far (sn) and the quota (remaining).  An item is pushed when it has an
\* id that is not in seen, which by then holds sn and the ids pushed
\* before it: NewAt lists the positions of these items.  The loop breaks
\* once `remaining` ids are pushed.
NewAt(items, sn) ==
  SelectSeq([k \in 1..Len(items) |-> k],
            LAMBDA k : /\ items[k] # 0
                       /\ items[k] \notin sn
                       /\ \A j \in 1..(k - 1) : items[j] # items[k])

Candidates_NoBreak(items, sn, remaining) ==
  LET at == NewAt(items, sn)
  IN  [j \in 1..Len(at) |-> items[at[j]]]

Candidates_NoSeen(items, sn, remaining) ==
  LET at == SelectSeq([k \in 1..Len(items) |-> k], LAMBDA k : items[k] # 0)
  IN  [j \in 1..Min(Len(at), remaining) |-> items[at[j]]]

Candidates(items, sn, remaining) ==
  LET at == NewAt(items, sn)
  IN  [j \in 1..Min(Len(at), remaining) |-> items[at[j]]]

\* undefined, where a number is expected
Undefined == -1

\* numberOrUndefined: the number a string stands for, if it is finite
numberOrUndefined(value) ==
  IF ~value.defined THEN Undefined
  ELSE LET num == Number(value.chars)
       IN  IF ~num.finite THEN Undefined
           ELSE IF num.neg THEN 0 - num.int ELSE num.int

\* the YouTubeChannel built from a detail item (lines 104-124)
Channel(item) ==
  [id |-> item.id,
   title |-> IF item.title = 0 THEN item.id ELSE item.title,
   subscriberCount |-> IF item.hiddenSubscriberCount THEN Undefined
                       ELSE numberOrUndefined(item.subscriberCount)]

\* detailMap (lines 100-125): the ids of the response that have a record,
\* and the record of each, a later item replacing an earlier one
DetailKeys(items) == {items[k].id : k \in DOMAIN items} \ {0}

DetailGet(items, id) ==
  LET last == CHOOSE k \in DOMAIN items :
                /\ items[k].id = id
                /\ \A j \in DOMAIN items : items[j].id = id => j <= k
  IN  Channel(items[last])

\* the merge of lines 127-131: the candidates, in their order, that have a
\* record
Merge_ResponseOrder(cands, items) ==
  LET present == SelectSeq(items, LAMBDA it : it.id # 0)
  IN  [k \in 1..Len(present) |-> Channel(present[k])]

Merge(cands, items) ==
  LET keys == DetailKeys(items)
      present == SelectSeq(cands, LAMBDA id : id \in keys)
  IN  [k \in 1..Len(present) |-> DetailGet(items, present[k])]

\* collected.slice(0, MAX_RESULTS)
Slice(list) == SubSeq(list, 1, Min(Len(list), MAX_RESULTS))

\* the rows of the two tables (lines 190-204)
ChannelRow(channel) == [id |-> channel.id, title |-> channel.title]
StatsRow(channel) ==
  [channel_id |-> channel.id, subscriber_count |-> channel.subscriberCount]

ChannelRows(channels) == [k \in 1..Len(channels) |-> ChannelRow(channels[k])]
StatsRows(channels) == [k \in 1..Len(channels) |-> StatsRow(channels[k])]

(***************************************************************************)
(* The store.  A table is the list of its rows; upsert with onConflict on  *)
(* the key column replaces the row that has the key of a new row and       *)
(* appends the new row otherwise.                                          *)
(***************************************************************************)
Insert(table, rows, onConflict) == table \o rows

\* the rows of the call are applied in their order, so that of two rows
\* with one key the later one stays, at the place of the first
Upsert(table, rows, onConflict) ==
  LET key(row) == row[onConflict]
      rowKeys == {key(rows[j]) : j \in DOMAIN rows}
      tableKeys == {key(table[j]) : j \in DOMAIN table}
      lastOf(k) == rows[CHOOSE j \in DOMAIN rows :
                          /\ key(rows[j]) = k
                          /\ \A i \in (j + 1)..Len(rows) : key(rows[i]) # k]
      updated == [j \in DOMAIN table |->
                    IF key(table[j]) \in rowKeys THEN lastOf(key(table[j]))
                    ELSE table[j]]
      freshAt == SelectSeq([j \in 1..Len(rows) |-> j],
                           LAMBDA j : /\ key(rows[j]) \notin tableKeys
                                      /\ \A i \in 1..(j - 1) :
                                           key(rows[i]) # key(rows[j]))
  IN  updated \o [j \in 1..Len(freshAt) |-> lastOf(key(rows[freshAt[j]]))]

(***************************************************************************)
(* State.                                                                  *)
(***************************************************************************)
VARIABLES
  \* the ChannelDiscovery handler
  pc,               \* where the handler is: "idle" between two requests
  runs,             \* requests received so far
  env,              \* process.env
  query,            \* the query parameters of the current (or last) request
  minSubscribers,
  maxSubscribers,
  collected,
  seen,
  nextPageToken,
  candidateIds,
  searchData,       \* the page of the last search response
  channels,         \* what fetchYouTubeChannels returned
  response,         \* the response of the last request
  \* the store
  channelsTbl,
  statsTbl,
  \* the upstream API: the page a request without token gets, the
  \* continuation token of each page (Unset until the page is first served),
  \* and the ids the details endpoint knows
  firstPage,
  upstream,
  detailMode,
  \* what the current run did on the network
  nSearch,          \* search requests
  nDetail,          \* detail-lookup requests
  nUpsertChannels,  \* upserts into channels
  nUpsertStats,     \* upserts into channel_stats
  pageSize,         \* maxResults of the last search request
  lookedUp,         \* the ids sent to the details endpoint
  relooked,         \* an id was sent to the details endpoint a second time
  tokenlessAt,      \* nSearch when a page came without continuation token
  failed,           \* the first non-success upstream response
  order,            \* the candidate ids of the merged batches, as discovered
  returned,         \* fetchYouTubeChannels has returned
  putChannels,      \* the ids of the rows the store took into channels
  putStats,         \* the ids of the rows the store took into channel_stats
  okRuns,           \* runs that ended with the success response
  firstOk,          \* the two tables as the first such run left them
  \* the VideoSync handler
  vpc,              \* where the handler is: "idle" between two requests
  vruns,            \* requests received so far
  vStatus,          \* the status of the last upstream response
  vData,            \* the body of the last upstream response
  vRows,
  videosTbl,
  vUpserts,         \* upserts into videos made by the current run
  vError,           \* the upsert into videos reported an error
  vResponse         \* the response of the last request

upstreamVars == <<firstPage, upstream, detailMode>>
storeVars == <<channelsTbl, statsTbl>>
loopVars == <<collected, seen, nextPageToken, candidateIds, searchData>>
netVars == <<nSearch, nDetail, nUpsertChannels, nUpsertStats, pageSize,
             lookedUp, relooked, tokenlessAt, failed, order, returned,
             putChannels, putStats>>
discoveryVars ==
  <<pc, runs, env, query, minSubscribers, maxSubscribers, loopVars, channels,
    response, storeVars, upstreamVars, netVars, okRuns, firstOk>>
videoVars ==
  <<vpc, vruns, vStatus, vData, vRows, videosTbl, vUpserts, vError, vResponse>>
vars == <<discoveryVars, videoVars>>

NoFailure == [endpoint |-> "", status |-> 0, nSearch |-> 0, nDetail |-> 0]

\* rows the store may hold before the first run: none, or an outdated row
\* of channel 1 and a row of a channel no page lists
InitialTables ==
  { [channels |-> <<>>, stats |-> <<>>],
    [channels |-> <<[id |-> 777, title |-> 1777], [id |-> 1, title |-> 1]>>,
     stats |-> <<[channel_id |-> 1, subscriber_count |-> 5]>>] }

\* the bodies the upstream answers VideoSync with: no items field, no
\* items, videos, the same video twice, and an item without an id
VideoItem(n) == [hasId |-> n # 0, videoId |-> n, title |-> 2000 + n]

VideoBodies ==
  { [hasItems |-> FALSE, items |-> <<>>],
    [hasItems |-> TRUE, items |-> <<>>],
    [hasItems |-> TRUE, items |-> <<VideoItem(1)>>],
    [hasItems |-> TRUE, items |-> <<VideoItem(2), VideoItem(3)>>],
    [hasItems |-> TRUE, items |-> <<VideoItem(3), VideoItem(1), VideoItem(4)>>],
    [hasItems |-> TRUE, items |-> <<VideoItem(1), VideoItem(0)>>] }

NoBody == [hasItems |-> FALSE, items |-> <<>>]

VideoInit ==
  /\ vpc = "idle"
  /\ vruns = 0
  /\ vStatus = 0
  /\ vData = NoBody
  /\ vRows = <<>>
  /\ videosTbl = <<>>
  /\ vUpserts = 0
  /\ vError = FALSE
  /\ vResponse = NoResponse

DiscoveryInit ==
  /\ pc = "idle"
  /\ runs = 0
  /\ env \in Envs
  /\ query = [min |-> Absent, max |-> Absent]
  /\ minSubscribers = 0
  /\ maxSubscribers = MAX_ALLOWED_SUBSCRIBERS
  /\ collected = <<>>
  /\ seen = {}
  /\ nextPageToken = NoToken
  /\ candidateIds = <<>>
  /\ searchData = NoToken
  /\ channels = <<>>
  /\ response = NoResponse
  /\ \E t \in InitialTables : channelsTbl = t.channels /\ statsTbl = t.stats
  /\ firstPage \in Pages
  /\ detailMode \in DetailModes
  /\ nSearch = 0
  /\ nDetail = 0
  /\ nUpsertChannels = 0
  /\ nUpsertStats = 0
  /\ pageSize = 0
  /\ lookedUp = {}
  /\ relooked = FALSE
  /\ tokenlessAt = 0
  /\ failed = NoFailure
  /\ order = <<>>
  /\ returned = FALSE
  /\ putChannels = {}
  /\ putStats = {}
  /\ okRuns = 0
  /\ firstOk = [channels |-> <<>>, stats |-> <<>>, ids |-> {}]

Init ==
  /\ DiscoveryInit
  /\ upstream = [p \in Pages |-> Unset]
  /\ VideoInit

\* the HTTP statuses the upstream answers with
Statuses == {200, 403}

\* Response.ok
Ok_Always(status) == TRUE

Ok(status) == status >= 200 /\ status <= 299

\* the catch of lines 219-221: the run ends with the error response
Catch(message, code) ==
  /\ pc' = "idle"
  /\ response' = Response(500, message, code)

\* the error checks of lines 208 and 215, and of line 28 of the batch
\* route: an error the store reports is thrown
Throws_Never(error) == FALSE

Throws(error) == error

(***************************************************************************)
(* GET, lines 140-185: the request arrives and is validated.               *)
(***************************************************************************)
GET_Begin(queries) ==
  /\ pc = "idle"
  /\ runs < MaxRuns
  /\ \E q \in queries :
       LET v == Validate(q, env)
       IN  /\ query' = q
           /\ minSubscribers' = v.min
           /\ maxSubscribers' = v.max
           /\ response' = v.response
           /\ pc' = IF v.proceed THEN "search" ELSE "idle"
  /\ runs' = runs + 1
  /\ collected' = <<>>
  /\ seen' = {}
  /\ nextPageToken' = NoToken
  /\ candidateIds' = <<>>
  /\ searchData' = NoToken
  /\ channels' = <<>>
  /\ nSearch' = 0
  /\ nDetail' = 0
  /\ nUpsertChannels' = 0
  /\ nUpsertStats' = 0
  /\ pageSize' = 0
  /\ lookedUp' = {}
  /\ relooked' = FALSE
  /\ tokenlessAt' = 0
  /\ failed' = NoFailure
  /\ order' = <<>>
  /\ returned' = FALSE
  /\ putChannels' = {}
  /\ putStats' = {}
  /\ UNCHANGED <<env, storeVars, upstreamVars, okRuns, firstOk>>

(***************************************************************************)
(* fetchYouTubeChannels, lines 54-86: one search request and the           *)
(* candidates of its page.                                                 *)
(***************************************************************************)
\* what follows a page without new candidates (lines 82-86)
AfterEmptyPage_Continue(token) == "search"

AfterEmptyPage(token) == IF token = NoToken THEN "return" ELSE "search"

\* maxResults of a search request (line 60)
PageSize_Chunk(remaining) == CHUNK_SIZE

PageSize(remaining) == Min(CHUNK_SIZE, remaining)

SearchPage ==
  /\ pc = "search"
  /\ Len(collected) < MAX_RESULTS
  /\ LET remaining == MAX_RESULTS - Len(collected)
         page == IF nextPageToken = NoToken THEN firstPage ELSE nextPageToken
     IN  /\ pageSize' = PageSize(remaining)
         /\ nSearch' = Inc(nSearch)
         /\ \E status \in Statuses :
              IF ~Ok(status)
              THEN /\ Catch(MsgSearchError, status)
                   /\ failed' = IF failed = NoFailure
                                THEN [endpoint |-> "search", status |-> status,
                                      nSearch |-> nSearch', nDetail |-> nDetail]
                                ELSE failed
                   /\ UNCHANGED <<loopVars, upstream, tokenlessAt>>
              ELSE \E token \in Pages \cup {NoToken} :
                     \* the page and its token; an error body has neither
                     LET items == IF status = 200 THEN PageItems(page) ELSE <<>>
                         next == IF status # 200 THEN NoToken
                                 ELSE IF upstream[page] = Unset THEN token
                                 ELSE upstream[page]
                         cands == Candidates(items, seen, remaining)
                     IN  /\ upstream[page] # Unset => token = upstream[page]
                         /\ status # 200 => token = NoToken
                         /\ upstream' = IF status = 200
                                        THEN [upstream EXCEPT ![page] = next]
                                        ELSE upstream
                         /\ failed' = IF status # 200 /\ failed = NoFailure
                                      THEN [endpoint |-> "search", status |-> status,
                                            nSearch |-> nSearch', nDetail |-> nDetail]
                                      ELSE failed
                         /\ tokenlessAt' = IF status = 200 /\ next = NoToken
                                           THEN nSearch' ELSE tokenlessAt
                         /\ candidateIds' = cands
                         /\ seen' = seen \cup Range(cands)
                         /\ searchData' = page
                         /\ IF cands = <<>>
                            THEN /\ nextPageToken' = next
                                 /\ pc' = AfterEmptyPage(next)
                            ELSE /\ nextPageToken' = nextPageToken
                                 /\ pc' = "detail"
                         /\ UNCHANGED <<collected, response>>
  /\ UNCHANGED <<runs, env, query, minSubscribers, maxSubscribers, channels,
                 storeVars, firstPage, detailMode, nDetail, nUpsertChannels,
                 nUpsertStats, lookedUp, relooked, order, returned,
                 putChannels, putStats, okRuns, firstOk>>

\* the loop condition of line 54 fails: the cap is reached
LoopExit ==
  /\ pc = "search"
  /\ ~(Len(collected) < MAX_RESULTS)
  /\ pc' = "return"
  /\ UNCHANGED <<runs, env, query, minSubscribers, maxSubscribers, loopVars,
                 channels, response, storeVars, upstreamVars, netVars, okRuns,
                 firstOk>>

(***************************************************************************)
(* fetchYouTubeChannels, lines 88-135: the detail lookup of the            *)
(* candidates and the merge into collected.                                *)
(***************************************************************************)
DetailLookup ==
  /\ pc = "detail"
  /\ nDetail' = Inc(nDetail)
  /\ lookedUp' = lookedUp \cup Range(candidateIds)
  /\ relooked' = (relooked \/ Range(candidateIds) \cap lookedUp # {})
  /\ \E status \in Statuses :
       IF ~Ok(status)
       THEN /\ Catch(MsgChannelsError, status)
            /\ failed' = IF failed = NoFailure
                         THEN [endpoint |-> "channels", status |-> status,
                               nSearch |-> nSearch, nDetail |-> nDetail']
                         ELSE failed
            /\ UNCHANGED <<loopVars, order>>
       ELSE LET items == IF status = 200
                         THEN DetailItems(detailMode, candidateIds) ELSE <<>>
                merged == collected \o Merge(candidateIds, items)
                next == upstream[searchData]
            IN  /\ failed' = IF status # 200 /\ failed = NoFailure
                             THEN [endpoint |-> "channels", status |-> status,
                                   nSearch |-> nSearch, nDetail |-> nDetail']
                             ELSE failed
                /\ collected' = merged
                /\ order' = order \o candidateIds
                /\ nextPageToken' = next
                /\ pc' = IF next = NoToken THEN "return" ELSE "search"
                /\ UNCHANGED <<seen, candidateIds, searchData, response>>
  /\ UNCHANGED <<runs, env, query, minSubscribers, maxSubscribers, channels,
                 storeVars, upstreamVars, nSearch, nUpsertChannels,
                 nUpsertStats, pageSize, tokenlessAt, returned, putChannels,
                 putStats, okRuns, firstOk>>

(***************************************************************************)
(* fetchYouTubeChannels returns (line 137).                                *)
(***************************************************************************)
Return ==
  /\ pc = "return"
  /\ channels' = Slice(collected)
  /\ returned' = TRUE
  /\ pc' = "upsertChannels"
  /\ UNCHANGED <<runs, env, query, minSubscribers, maxSubscribers, loopVars,
                 response, storeVars, upstreamVars, nSearch, nDetail,
                 nUpsertChannels, nUpsertStats, pageSize, lookedUp, relooked,
                 tokenlessAt, failed, order, putChannels, putStats, okRuns,
                 firstOk>>


(***************************************************************************)
(* GET, lines 190-221: the rows and the two upserts.                       *)
(***************************************************************************)
IdsOf(list) == {list[k].id : k \in DOMAIN list}

\* the guards of lines 206 and 211
NonEmpty_Always(rows) == TRUE

NonEmpty(rows) == Len(rows) > 0

UpsertChannels ==
  /\ pc = "upsertChannels"
  /\ LET channelRows == ChannelRows(channels)
     IN  IF NonEmpty(channelRows)
         THEN /\ nUpsertChannels' = Inc(nUpsertChannels)
              /\ \E channelError \in BOOLEAN :
                   \* the store takes every row, or none and reports an error
                   /\ channelsTbl' = IF channelError THEN channelsTbl
                                     ELSE Upsert(channelsTbl, channelRows, "id")
                   /\ putChannels' = IF channelError THEN {}
                                     ELSE IdsOf(channelRows)
                   /\ IF Throws(channelError)
                      THEN Catch(MsgStoreError, 0)
                      ELSE pc' = "upsertStats" /\ UNCHANGED response
         ELSE /\ pc' = "upsertStats"
              /\ UNCHANGED <<nUpsertChannels, channelsTbl, putChannels, response>>
  /\ UNCHANGED <<runs, env, query, minSubscribers, maxSubscribers, loopVars,
                 channels, statsTbl, upstreamVars, nSearch, nDetail,
                 nUpsertStats, pageSize, lookedUp, relooked, tokenlessAt,
                 failed, order, returned, putStats, okRuns, firstOk>>

\* the success response of line 218
Completed(chTbl, stTbl) ==
  /\ pc' = "idle"
  /\ response' = Response(200, MsgCompleted, 0)
  /\ okRuns' = okRuns + 1
  /\ firstOk' = IF okRuns = 0
                THEN [channels |-> chTbl, stats |-> stTbl,
                      ids |-> {channels[k].id : k \in DOMAIN channels}]
                ELSE firstOk

UpsertStats ==
  /\ pc = "upsertStats"
  /\ LET statsRows == StatsRows(channels)
     IN  IF NonEmpty(statsRows)
         THEN /\ nUpsertStats' = Inc(nUpsertStats)
              /\ \E statsError \in BOOLEAN :
                   \* the store takes every row, or none and reports an error
                   /\ statsTbl' = IF statsError THEN statsTbl
                                  ELSE Upsert(statsTbl, statsRows, "channel_id")
                   /\ putStats' = IF statsError THEN {}
                                  ELSE {statsRows[k].channel_id : k \in DOMAIN statsRows}
                   /\ IF Throws(statsError)
                      THEN /\ Catch(MsgStoreError, 0)
                           /\ UNCHANGED <<okRuns, firstOk>>
                      ELSE Completed(channelsTbl, statsTbl')
         ELSE /\ Completed(channelsTbl, statsTbl)
              /\ UNCHANGED <<nUpsertStats, statsTbl, putStats>>
  /\ UNCHANGED <<runs, env, query, minSubscribers, maxSubscribers, loopVars,
                 channels, channelsTbl, upstreamVars, nSearch, nDetail,
                 nUpsertChannels, pageSize, lookedUp, relooked, tokenlessAt,
                 failed, order, returned, putChannels>>

(***************************************************************************)
(* VideoSync: GET of src/app/api/batch/route.ts.                           *)
(***************************************************************************)
MsgBatchFailed == "batch failed"
MsgInserted == "inserted"

\* the catch of lines 30-33
VideoCatch ==
  /\ vpc' = "idle"
  /\ vResponse' = Response(500, MsgBatchFailed, 0)

\* lines 7-11: the request to the upstream API
VideoFetch ==
  /\ vpc = "idle"
  /\ vruns < MaxRuns
  /\ vruns' = vruns + 1
  /\ vUpserts' = 0
  /\ vError' = FALSE
  /\ vRows' = <<>>
  /\ \E status \in Statuses, body \in VideoBodies :
       /\ vStatus' = status
       /\ vData' = IF status = 200 THEN body ELSE NoBody
       /\ status # 200 => body = NoBody
       /\ IF ~Ok(status) THEN VideoCatch
          ELSE vpc' = "rows" /\ vResponse' = NoResponse
  /\ UNCHANGED videosTbl

\* lines 13-22: items.map throws on a body without items and on an item
\* without an id
VideoRow(item) == [video_id |-> item.videoId, title |-> item.title]

VideoRows ==
  /\ vpc = "rows"
  /\ IF ~vData.hasItems \/ \E k \in DOMAIN vData.items : ~vData.items[k].hasId
     THEN VideoCatch /\ UNCHANGED vRows
     ELSE /\ vRows' = [k \in DOMAIN vData.items |-> VideoRow(vData.items[k])]
          /\ vpc' = "upsert"
          /\ UNCHANGED vResponse
  /\ UNCHANGED <<vruns, vStatus, vData, videosTbl, vUpserts, vError>>

\* lines 24-29: the upsert and the response
VideoUpsert ==
  /\ vpc = "upsert"
  /\ vUpserts' = Inc(vUpserts)
  /\ \E error \in BOOLEAN :
       \* the store takes every row, or none and reports an error
       /\ videosTbl' = IF error THEN videosTbl
                       ELSE Upsert(videosTbl, vRows, "video_id")
       /\ vError' = error
       /\ IF Throws(error)
          THEN VideoCatch
          ELSE /\ vpc' = "idle"
               /\ vResponse' = Response(200, MsgInserted, Len(vRows))
  /\ UNCHANGED <<vruns, vStatus, vData, vRows>>

\* every variable of the configuration that a run needs is set
ConfigComplete(e) ==
  /\ e.YOUTUBE_API_KEY
  /\ e.SUPABASE_URL
  /\ e.SUPABASE_SERVICE_ROLE_KEY \/ e.SUPABASE_ANON_KEY

(***************************************************************************)
(* Specifications.                                                         *)
(***************************************************************************)
\* the steps of a discovery run after its validation
RunStep ==
  \/ SearchPage
  \/ LoopExit
  \/ DetailLookup
  \/ Return
  \/ UpsertChannels
  \/ UpsertStats

\* ChannelDiscovery against every upstream of the model
Next ==
  \/ GET_Begin(CoreQueries) /\ UNCHANGED videoVars
  \/ SearchPage /\ UNCHANGED videoVars
  \/ LoopExit /\ UNCHANGED videoVars
  \/ DetailLookup /\ UNCHANGED videoVars
  \/ Return /\ UNCHANGED videoVars
  \/ UpsertChannels /\ UNCHANGED videoVars
  \/ UpsertStats /\ UNCHANGED videoVars

Spec == Init /\ [][Next]_vars

\* ChannelDiscovery with the configuration complete and the default query,
\* every step of a run being taken eventually: the handler is never
\* suspended for ever, and every request it awaits is answered
LiveInit ==
  /\ Init
  /\ ConfigComplete(env)
  /\ channelsTbl = <<>>

LiveNext ==
  \/ GET_Begin({[min |-> Absent, max |-> Absent]}) /\ UNCHANGED videoVars
  \/ SearchPage /\ UNCHANGED videoVars
  \/ LoopExit /\ UNCHANGED videoVars
  \/ DetailLookup /\ UNCHANGED videoVars
  \/ Return /\ UNCHANGED videoVars
  \/ UpsertChannels /\ UNCHANGED videoVars
  \/ UpsertStats /\ UNCHANGED videoVars

\* the run in progress moves on: the handler goes to its next position, or
\* to the next page.  LiveNext allows no other step from a state in which a
\* run is in progress, so these are steps of RunStep; the fairness is
\* stated on the position and the page alone, which every step of a run
\* that does not repeat its state changes
position == <<pc, searchData>>

RunProgress ==
  /\ pc # "idle"
  /\ pc' \in {"idle", "search", "detail", "return", "upsertChannels", "upsertStats"}
  /\ searchData' \in Pages \cup {NoToken}

LiveSpec ==
  /\ LiveInit
  /\ [][LiveNext]_vars
  /\ WF_position(RunProgress)

\* ChannelDiscovery with every query of the catalog, against an upstream of
\* one page
ParamsInit ==
  /\ DiscoveryInit
  /\ firstPage = "D"
  /\ detailMode = "all"
  /\ upstream = [p \in Pages |-> NoToken]
  /\ channelsTbl = <<>>
  /\ VideoInit

ParamsNext ==
  \/ GET_Begin(AllQueries) /\ UNCHANGED videoVars
  \/ SearchPage /\ UNCHANGED videoVars
  \/ DetailLookup /\ UNCHANGED videoVars
  \/ Return /\ UNCHANGED videoVars
  \/ UpsertChannels /\ UNCHANGED videoVars
  \/ UpsertStats /\ UNCHANGED videoVars

ParamsSpec == ParamsInit /\ [][ParamsNext]_vars

\* VideoSync
VideoNext ==
  \/ VideoFetch /\ UNCHANGED discoveryVars
  \/ VideoRows /\ UNCHANGED discoveryVars
  \/ VideoUpsert /\ UNCHANGED discoveryVars

VideoSpec == Init /\ [][VideoNext]_vars


(***************************************************************************)
(* Properties.                                                             *)
(***************************************************************************)
\* no element is twice in the list
NoRepeat(list) == Cardinality(Range(list)) = Len(list)

AfterReturn == pc \in {"upsertChannels", "upsertStats"}

\* C1: the accumulated list never holds more than MAX_RESULTS channels, so
\* neither does the returned list, and the slice of line 137 drops nothing
C1_CollectedWithinCap ==
  /\ Len(collected) <= MAX_RESULTS
  /\ Len(channels) <= MAX_RESULTS
  /\ AfterReturn => channels = collected

\* the cap is reached on a page that lists more new ids than the quota
C1_Witness ==
  /\ AfterReturn
  /\ Len(channels) = MAX_RESULTS
  /\ searchData = "B"

\* C2: no channel id is twice in the accumulated or the returned list, and
\* no key is twice in the rows of either upsert
C2_NoDuplicateIds ==
  /\ NoRepeat([k \in DOMAIN collected |-> collected[k].id])
  /\ NoRepeat([k \in DOMAIN channels |-> channels[k].id])
  /\ NoRepeat([k \in DOMAIN channels |-> ChannelRows(channels)[k].id])
  /\ NoRepeat([k \in DOMAIN channels |-> StatsRows(channels)[k].channel_id])

\* a list returned after page D (ids repeated in the page) and page A (the
\* ids of D again)
C2_Witness ==
  /\ AfterReturn
  /\ firstPage = "D"
  /\ searchData = "A"
  /\ Len(channels) >= 25

\* C3 as claimed: the seen-set never holds more than MAX_RESULTS ids
C3_SeenWithinCap == Cardinality(seen) <= MAX_RESULTS

\* the candidates of the current page, until their details are merged
Pending == IF pc = "detail" THEN Range(candidateIds) ELSE {}

\* C3, amended: the ids accepted as candidates and not dropped for want of
\* a detail record (accumulated, or awaiting their lookup) are in seen and
\* are never more than MAX_RESULTS
C3_AcceptedWithinCap ==
  /\ IdsOf(collected) \cup Pending \subseteq seen
  /\ Cardinality(IdsOf(collected) \cup Pending) <= MAX_RESULTS

\* the seen-set is above the cap while channels are accumulated
C3_Witness ==
  /\ Cardinality(seen) > MAX_RESULTS
  /\ Len(collected) > 0

\* C4 as claimed: every run finishes
C4_RunFinishes == (pc # "idle") ~> (pc = "idle")

\* the loop is bound to stop: a page came without continuation token, or
\* MAX_RESULTS channels are accumulated, or the loop is left already
LoopEnding ==
  \/ tokenlessAt > 0
  \/ Len(collected) >= MAX_RESULTS
  \/ pc \in {"return", "upsertChannels", "upsertStats"}

\* C4, amended: a run finishes once a search response has come without
\* continuation token or MAX_RESULTS channels are accumulated (a failed
\* request ends it at once); it need not finish while every page carries a
\* token and fewer channels are accumulated
C4_FinishesOnceLoopEnds == (pc # "idle" /\ LoopEnding) ~> (pc = "idle")

\* a run of several pages has finished
C4_Witness ==
  /\ pc = "idle"
  /\ nSearch >= 3
  /\ response = Response(200, MsgCompleted, 0)

\* C5: once a search response came without continuation token, the run
\* issues no further search request
C5_NoSearchAfterLastPage ==
  tokenlessAt > 0 => nSearch = tokenlessAt /\ pc # "search"

\* the first page had no token and no new id: the run ended after one
\* search request, far below the cap
C5_Witness ==
  /\ pc = "idle"
  /\ tokenlessAt = 1
  /\ nSearch = 1
  /\ seen = {}
  /\ response = Response(200, MsgCompleted, 0)

FailureMessage(endpoint) ==
  IF endpoint = "search" THEN MsgSearchError ELSE MsgChannelsError

\* C6: a non-success upstream response ends the run: status 500 with the
\* endpoint and the status code, no request after it, and no upsert
C6_UpstreamFailureAborts ==
  failed # NoFailure =>
    /\ pc = "idle"
    /\ response = Response(500, FailureMessage(failed.endpoint), failed.status)
    /\ nSearch = failed.nSearch
    /\ nDetail = failed.nDetail
    /\ nUpsertChannels = 0
    /\ nUpsertStats = 0

\* a detail lookup failed on a later page, channels being accumulated
C6_Witness ==
  /\ failed.endpoint = "channels"
  /\ failed.nSearch >= 2
  /\ Len(collected) > 0

\* the reference of C7, on what the raw values stand for
Defaulted(m) == m.class \in {"absent", "blank"}

RefOutcome(q) ==
  LET m == Meaning(q.min)
      x == Meaning(q.max)
      lo == IF Defaulted(m) THEN 0 ELSE m.n
      hi == IF Defaulted(x) THEN 10000 ELSE x.n
      clamped == IF hi > 10000 THEN 10000 ELSE hi
  IN  IF m.class = "invalid" \/ x.class = "invalid"
      THEN [status |-> 400, body |-> MsgInvalid, min |-> 0, max |-> 0]
      ELSE IF lo > 10000
      THEN [status |-> 400, body |-> MsgMinTooLarge, min |-> 0, max |-> 0]
      ELSE IF lo > clamped
      THEN [status |-> 400, body |-> MsgMinAboveMax, min |-> 0, max |-> 0]
      ELSE [status |-> 0, body |-> "", min |-> lo, max |-> clamped]

InDomain(q) ==
  /\ Meaning(q.min).class \in {"absent", "blank", "int", "invalid"}
  /\ Meaning(q.max).class \in {"absent", "blank", "int", "invalid"}

\* C7: the outcome of the validation is the one of the reference
C7_ValidationAsReference ==
  (runs > 0 /\ InDomain(query)) =>
    LET r == RefOutcome(query)
    IN  IF r.status = 400
        THEN response.status = 400 /\ response.body = r.body
        ELSE /\ response.status # 400
             /\ minSubscribers = r.min
             /\ maxSubscribers = r.max
             /\ 0 <= minSubscribers
             /\ minSubscribers <= maxSubscribers
             /\ maxSubscribers <= 10000

\* an upper bound above the maximum is clamped and the request proceeds
C7_Witness ==
  /\ pc = "search"
  /\ Meaning(query.min).n = 500
  /\ Meaning(query.max).n = 50000
  /\ minSubscribers = 500
  /\ maxSubscribers = 10000

NoNetwork ==
  /\ nSearch = 0
  /\ nDetail = 0
  /\ nUpsertChannels = 0
  /\ nUpsertStats = 0

\* C8: a request with invalid parameters, or received without the
\* configuration, is answered 400 or 500 and makes no request and no upsert
C8_RejectedNeverReachesNetwork ==
  /\ (runs > 0 /\ (RefOutcome(query).status = 400 \/ ~ConfigComplete(env))) =>
       /\ NoNetwork
       /\ pc = "idle"
       /\ response.status \in {400, 500}
  /\ (response.status = 400 \/ response.body \in {MsgNoApiKey, MsgNoSupabase}) =>
       NoNetwork

\* a second request is rejected for the missing API key
C8_Witness ==
  /\ runs = 2
  /\ pc = "idle"
  /\ response = Response(500, MsgNoApiKey, 0)

\* C9 as claimed: a successful upstream response without items is answered
\* { inserted: 0 } and no upsert is made
C9_ZeroItemsNoUpsert ==
  (vpc = "idle" /\ vStatus = 200 /\ vData.hasItems /\ vData.items = <<>>) =>
    /\ vResponse = Response(200, MsgInserted, 0)
    /\ vUpserts = 0

KeysOf(table, col) == [j \in DOMAIN table |-> table[j][col]]

\* C10: after a run has succeeded, the runs that follow leave both tables
\* as that run left them, with one row for each channel it discovered and
\* no key twice
C10_SecondRunAddsNothing ==
  okRuns >= 1 =>
    /\ channelsTbl = firstOk.channels
    /\ statsTbl = firstOk.stats
    /\ firstOk.ids \subseteq Range(KeysOf(channelsTbl, "id"))
    /\ firstOk.ids \subseteq Range(KeysOf(statsTbl, "channel_id"))
    /\ NoRepeat(KeysOf(channelsTbl, "id"))
    /\ NoRepeat(KeysOf(statsTbl, "channel_id"))

\* two runs have succeeded, each with channels to upsert
C10_Witness ==
  /\ okRuns = 2
  /\ Cardinality(firstOk.ids) >= 25
  /\ nUpsertChannels = 1
  /\ nUpsertStats = 1

\* the last request has been answered
RunEnded == pc = "idle" /\ runs > 0

Succeeded == RunEnded /\ response = Response(200, MsgCompleted, 0)

\* C11, as stated: when a run ends, the store has taken all of its rows
\* into both tables, or none of them into either
C11_BothTablesOrNeither ==
  RunEnded =>
    \/ putChannels = IdsOf(channels) /\ putStats = IdsOf(channels)
    \/ putChannels = {} /\ putStats = {}

\* C11: the two upserts are all-or-nothing one after the other: when a run
\* ends, each table has taken all of the run's rows or none of them,
\* channel_stats only if channels has, and both after the success response
C11_EachUpsertAllOrNothing ==
  RunEnded =>
    /\ putChannels \in {{}, IdsOf(channels)}
    /\ putStats \in {{}, IdsOf(channels)}
    /\ putStats # {} => putChannels = IdsOf(channels)
    /\ putChannels \subseteq Range(KeysOf(channelsTbl, "id"))
    /\ putStats \subseteq Range(KeysOf(statsTbl, "channel_id"))
    /\ Succeeded => putChannels = IdsOf(channels) /\ putStats = IdsOf(channels)

\* the run ends with its rows in channels and none in channel_stats
C11_Witness ==
  /\ RunEnded
  /\ nUpsertStats = 1
  /\ putChannels = IdsOf(channels)
  /\ putChannels # {}
  /\ putStats = {}

VideoEnded == vpc = "idle" /\ vruns > 0

Inserted == vResponse = Response(200, MsgInserted, Len(vData.items))

\* C12: a VideoSync run ends with the inserted response, counting the items
\* of the upstream page, exactly when the upstream succeeded and the one
\* upsert into videos reported no error, and with the batch failed
\* response otherwise; after an upstream failure no upsert is issued
C12_VideoSyncOutcome ==
  /\ vUpserts <= 1
  /\ ~Ok(vStatus) => vUpserts = 0
  /\ VideoEnded =>
       IF Ok(vStatus) /\ vUpserts = 1 /\ ~vError
       THEN Inserted
       ELSE vResponse = Response(500, MsgBatchFailed, 0)

\* a page of three videos has been inserted
C12_Witness ==
  /\ VideoEnded
  /\ Inserted
  /\ Len(vData.items) = 3
  /\ vUpserts = 1

\* C13: a search request asks for min(CHUNK_SIZE, MAX_RESULTS - accumulated)
\* results, which is between 1 and CHUNK_SIZE
C13_PageSizeOfRequest ==
  /\ nSearch > 0 => pageSize \in 1..CHUNK_SIZE
  /\ pc = "detail" =>
       pageSize = Min(CHUNK_SIZE, MAX_RESULTS - Len(collected))

\* a request made with fewer than CHUNK_SIZE channels missing
C13_Witness ==
  /\ pc = "detail"
  /\ pageSize < CHUNK_SIZE
  /\ Len(collected) > MAX_RESULTS - CHUNK_SIZE

\* C14: no id is sent to the details endpoint twice in a run, neither in
\* one request nor in two
C14_NoIdLookedUpTwice ==
  /\ ~relooked
  /\ pc = "detail" =>
       /\ NoRepeat(candidateIds)
       /\ Range(candidateIds) \cap lookedUp = {}

\* ids whose lookup returned no record are listed again by a later page,
\* which has been looked up in turn
C14_Witness ==
  /\ detailMode = "none"
  /\ firstPage = "A"
  /\ searchData = "D"
  /\ nDetail = 2
  /\ {1, 2} \subseteq lookedUp
  /\ collected = <<>>

\* C15: the accumulated list holds, in the order of their discovery, the
\* candidate ids of the merged batches that the details endpoint knows
C15_DiscoveryOrderKept ==
  [k \in DOMAIN collected |-> collected[k].id] =
    SelectSeq(order, LAMBDA id : Known(detailMode, id))

\* a run has succeeded although some of its candidates had no record
C15_Witness ==
  /\ Succeeded
  /\ detailMode = "odd"
  /\ nDetail >= 2
  /\ Len(collected) >= 2
  /\ Len(order) > Len(collected)
  /\ channels = collected

\* the store reported an error for the upsert into channels
ChannelsUpsertFailed == nUpsertChannels > 0 /\ putChannels = {}

\* C16: the upsert into channel_stats is issued only after the one into
\* channels has ended without error; after an error of the latter the run
\* ends with status 500 and the error message of the store, and no upsert
\* into channel_stats
C16_StatsAfterChannels ==
  /\ nUpsertChannels <= 1
  /\ nUpsertStats <= 1
  /\ nUpsertStats > 0 =>
       /\ nUpsertChannels = 1
       /\ putChannels # {}
       /\ putChannels = IdsOf(channels)
  /\ ChannelsUpsertFailed =>
       /\ nUpsertStats = 0
       /\ pc = "idle"
       /\ response = Response(500, MsgStoreError, 0)

C16_Witness ==
  /\ ChannelsUpsertFailed
  /\ RunEnded
  /\ Len(channels) >= 2

\* C17: a run that returns no channel calls neither upsert and ends with
\* the success response
C17_NoChannelsNoUpsert ==
  returned /\ channels = <<>> =>
    /\ nUpsertChannels = 0
    /\ nUpsertStats = 0
    /\ pc = "idle" => response = Response(200, MsgCompleted, 0)

\* a run whose candidates all lacked a record has ended
C17_Witness ==
  /\ RunEnded
  /\ returned
  /\ channels = <<>>
  /\ lookedUp # {}
  /\ response = Response(200, MsgCompleted, 0)

\* C18, as stated: a detail-lookup request carries at most CHUNK_SIZE ids
C18_LookupWithinChunk ==
  pc = "detail" => Len(candidateIds) <= CHUNK_SIZE

\* C19: the success response is given only after a run in which no
\* upstream request failed and no upsert reported an error; every channel
\* of the result is then in both tables
C19_SuccessMeansAllDone ==
  Succeeded =>
    /\ failed = NoFailure
    /\ returned
    /\ putChannels = IdsOf(channels)
    /\ putStats = IdsOf(channels)
    /\ IdsOf(channels) \subseteq Range(KeysOf(channelsTbl, "id"))
    /\ IdsOf(channels) \subseteq Range(KeysOf(statsTbl, "channel_id"))

\* a run of several pages has succeeded
C19_Witness ==
  /\ Succeeded
  /\ nSearch >= 2
  /\ Len(channels) >= CHUNK_SIZE
  /\ nUpsertChannels = 1
  /\ nUpsertStats = 1

=============================================================================
